---- MODULE Spec2Model ----
(***************************************************************************)
(* mrdm: the annotation scan, the id allocator and the done reconciliation *)
(* of src/main.rs as a state machine.                                      *)
(*                                                                         *)
(* A source line is a sequence of lexical tokens (strings): "\"" a double  *)
(* quote, "//" the comment marker, " " one whitespace character, a         *)
(* category word, "(", ")", ":", a maximal run of decimal digits, and any  *)
(* other text.  A file is a sequence of lines plus whether its last line   *)
(* is newline-terminated.  Ids are the decimal strings the program builds  *)
(* with format!("{}", n).                                                  *)
(***************************************************************************)
EXTENDS Integers, Sequences, FiniteSets, TLC

\* ------------------------------------------------------------------ bounds
\* Largest value the shared counter may reach in the model.
MaxId == 6
\* Lines the BufWriter holds before it writes through (std: 8192 bytes).
BufCapacity == 2
\* Invocations of the program in one behaviour.
MaxRuns == 2
\* Edits of the sources between invocations in one behaviour.
MaxEdits == 1
\* Write failures injected in one behaviour.
MaxFaults == 1

\* ------------------------------------------------------------------ state
VARIABLES
    fs,              \* path -> inode number, 0 when the path does not exist
    inodes,          \* inode number -> File
    store,           \* .mrdm/data.json (OUT_PATH)
    storeTmp,        \* .mrdm/data.tmp
    mpc,             \* where main is: "idle" (no process), "join", "reconcile"
    cmd,             \* the action of the current or last invocation
    exit,            \* how the last invocation ended: "none", "ok", "err", "killed"
    prev_todo,       \* main: prev_todo.items
    current_length,  \* Arc<Mutex<usize>>: the id allocator
    todo_items,      \* Arc<Mutex<TodoList>>: the aggregate map
    holders,         \* the tasks inside todo_items.lock()
    handles,         \* get_todos: the spawned tasks, in spawn order
    joined,          \* get_todos: handles joined so far
    task,            \* per path: the state of get_todos_from_one_file
    final_todo,      \* main (done): final_todo
    deleted_keys,    \* main (done): deleted_keys not yet visited
    undone_keys,     \* main (done): undone_keys not yet visited
    \* -- history, read by the properties only
    base,            \* the allocator's value when the scan began
    allocs,          \* the values allocated by the current scan, in order
    everAllocated,   \* the ids allocated by earlier invocations
    preScan,         \* path -> File when the scan began
    recorded,        \* the (id, item) pairs the current scan inserted
    answered,        \* done: key -> the operator's answer as trimmed and lowered
    dupIds,          \* done: the ids given to duplicates
    lastRun,         \* what the previous invocation was and left
    dirty,           \* the sources were edited since the invocation began
    loadLog,         \* what OUT_PATH held when it was loaded, and how the load went
    runs, edits, faults,
    patterns,        \* cfg.patterns / the -p override, joined with ","
    checklist,       \* the ids of the lines write_todo_items! wrote, in order
    prompts,         \* done: the prompts issued, in order, each with the line read
    preStore,        \* OUT_PATH as the invocation found it
    persistFault     \* done: the step of persisting that failed, "none" if none did

\* ------------------------------------------------------- paths and tokens
P(stem, ext) == [stem |-> stem, ext |-> ext]

\* The files the include glob can match, in the glob's (alphabetical) order.
PathSeq == << P("a", "c"), P("a", "rs"), P("a", "tmp"), P("b", "rs"), P("b", "tmp") >>

Paths == { PathSeq[i] : i \in 1..Len(PathSeq) }

\* path.with_extension("tmp")
WithExtensionTmp(p) == [p EXCEPT !.ext = "tmp"]

\* A category list: the one of test_regex.
Patterns == << "TODO", "FIXME" >>

NoId == "none"

\* format!("{}", n) for a usize
FormatId(n) == ToString(n)

\* Largest number whose decimal string the model tells from other text.
MaxNum == MaxId + 8

\* \d+ : the digit runs of the model.
IdStrings == { FormatId(n) : n \in 0..MaxNum }

\* id.parse::<usize>().unwrap_or(0)
ParseIdOr0(s) ==
    IF s \in IdStrings THEN CHOOSE n \in 0..MaxNum : FormatId(n) = s ELSE 0

\* ------------------------------------------------------------ create_regex
\* ^(?<before>[^"]*("[^"]*"[^"]*)*)//\s*(?<category>P1|P2)(\((?<id>\d+)\))?:\s*(?<title>.*)

\* \s* from position i: the first position at or after i that is not whitespace.
RECURSIVE SkipSpaces(_, _)
SkipSpaces(line, i) ==
    IF i <= Len(line) /\ line[i] = " " THEN SkipSpaces(line, i + 1) ELSE i

Tok(line, i) == IF i \in 1..Len(line) THEN line[i] ELSE "<eol>"

\* pattern.split(',') of cfg.patterns joined with ",": "" splits into [""].
SplitPatterns(ps) == IF ps = << >> THEN << "" >> ELSE ps

\* The alternatives of (?<category>P1|P2|..) for the current configuration.
PatternSet == { SplitPatterns(patterns)[i] : i \in 1..Len(SplitPatterns(patterns)) }

\* The first double quote among line[i..n], 0 when there is none.
RECURSIVE NextQuote(_, _, _)
NextQuote(line, i, n) ==
    IF i > n THEN 0
    ELSE IF line[i] = "\"" THEN i
    ELSE NextQuote(line, i + 1, n)

\* line[i..n] matches [^"]*("[^"]*"[^"]*)* : a run without quotes, then
\* groups of an opening quote, a run without quotes, a closing quote and a
\* run without quotes.
RECURSIVE PrefixMatches(_, _, _)
PrefixMatches(line, i, n) ==
    \E open \in {NextQuote(line, i, n)} :
        \/ open = 0
        \/ \E close \in {NextQuote(line, open + 1, n)} :
               close # 0 /\ PrefixMatches(line, close + 1, n)

\* A prefix rule that accepts everything.
BeforeMatchesAny(line, p) == TRUE

\* (?<before>..) can end right before position p.
BeforeMatches(line, p) == PrefixMatches(line, 1, p - 1)

\* Where alternative alt of the category group ends when it starts at c
\* (0: it does not match there).
AltEnd(line, c, alt) ==
    IF alt = "" THEN c ELSE IF Tok(line, c) = alt THEN c + 1 ELSE 0

\* (\((?<id>\d+)\))?: from position e.
HasIdAt(line, e) ==
    /\ Tok(line, e) = "("
    /\ Tok(line, e + 1) \in IdStrings
    /\ Tok(line, e + 2) = ")"
    /\ Tok(line, e + 3) = ":"

\* Alternative alt matches at c and the rest of the rule matches after it.
AltFits(line, c, alt) ==
    /\ AltEnd(line, c, alt) # 0
    /\ \/ HasIdAt(line, AltEnd(line, c, alt))
       \/ Tok(line, AltEnd(line, c, alt)) = ":"

\* The alternatives are tried in order: the first one from the i-th on that
\* fits at c (0: none does).
RECURSIVE FirstAltFrom(_, _, _)
FirstAltFrom(line, c, i) ==
    IF i > Len(SplitPatterns(patterns)) THEN 0
    ELSE IF AltFits(line, c, SplitPatterns(patterns)[i]) THEN i
    ELSE FirstAltFrom(line, c, i + 1)

\* The one element of a set of one element.
The(S) == CHOOSE x \in S : TRUE

\* The captured fields when the category is the k-th alternative, matched
\* from c to e (k = 0: no alternative fits).
TailFields(line, p, k, e) ==
    LET hasId == k # 0 /\ HasIdAt(line, e)
        colon == IF hasId THEN e + 3 ELSE e
    IN  [ ok       |-> Tok(line, p) = "//" /\ k # 0,
          category |-> IF k = 0 THEN "" ELSE SplitPatterns(patterns)[k],
          id       |-> IF hasId THEN Tok(line, e + 1) ELSE NoId,
          title    |-> The({ SubSeq(line, t, Len(line)) : t \in {SkipSpaces(line, colon + 1)} }) ]

\* The rest of the rule matched with the marker at position p.
TailAt(line, p) ==
    The({ The({ The({ TailFields(line, p, k, e) :
                        e \in {IF k = 0 THEN 0 ELSE AltEnd(line, c, SplitPatterns(patterns)[k])} }) :
                 k \in {FirstAltFrom(line, c, 1)} }) :
          c \in {SkipSpaces(line, p + 1)} })

MarkerPositions(line) ==
    { p \in 1..Len(line) : BeforeMatches(line, p) /\ TailAt(line, p).ok }

\* re.captures(line) matched?
IsMatch(line) == MarkerPositions(line) # {}

\* The greedy prefix takes the last marker that matches.
LastMarker(line) ==
    CHOOSE q \in MarkerPositions(line) : \A r \in MarkerPositions(line) : r <= q

\* The captures of the match whose marker is at position p.
CapturesAt(line, p) ==
    [ before   |-> SubSeq(line, 1, p - 1),
      category |-> TailAt(line, p).category,
      id       |-> TailAt(line, p).id,
      title    |-> TailAt(line, p).title ]

\* re.captures(line)
Captures(line) == The({ CapturesAt(line, p) : p \in {LastMarker(line)} })

\* re.replace(line, format!("$before// $category({}): $title", id))
ReplaceWithId(line, id) ==
    LET caps == Captures(line)
    IN  caps.before \o << "//", " ", caps.category, "(", id, ")", ":", " " >> \o caps.title

\* ------------------------------------------------------------ collections
\* HashMap<String, TodoItem>: a function from a finite set of id strings.
EmptyMap == [k \in {} |-> 0]

\* HashMap::insert
MapInsert(m, k, v) == [j \in (DOMAIN m) \cup {k} |-> IF j = k THEN v ELSE m[j]]

\* HashMap::remove
MapRemove(m, k) == [j \in (DOMAIN m) \ {k} |-> m[j]]

\* a.into_iter().chain(b.into_iter()).collect::<HashMap<_, _>>(): later pairs win.
MapChain(a, b) ==
    [j \in (DOMAIN a) \cup (DOMAIN b) |-> IF j \in DOMAIN b THEN b[j] ELSE a[j]]

RECURSIVE SetMax(_)
SetMax(S) ==
    LET e == CHOOSE e \in S : TRUE
    IN  IF S = {e} THEN e
        ELSE LET m == SetMax(S \ {e}) IN IF e > m THEN e ELSE m

\* TodoItem
Item(title, category, path, line, done) ==
    [title |-> title, category |-> category, path |-> path, line |-> line, done |-> done]

\* The decimal digits of n, most significant first: the characters of format!("{}", n).
RECURSIVE Digits(_)
Digits(n) == IF n < 10 THEN << n >> ELSE Append(Digits(n \div 10), n % 10)

\* Ord for str: lexicographic on the characters.
RECURSIVE LexLess(_, _)
LexLess(a, b) ==
    IF b = << >> THEN FALSE
    ELSE IF a = << >> THEN TRUE
    ELSE IF Head(a) # Head(b) THEN Head(a) < Head(b)
    ELSE LexLess(Tail(a), Tail(b))

\* id_a < id_b as sort_by_key(|(id, _)| id.clone()) compares the String keys.
StringLess(a, b) == LexLess(Digits(ParseIdOr0(a)), Digits(ParseIdOr0(b)))

\* v.sort_by_key(|(id, _)| id.clone()): the keys in ascending String order.
RECURSIVE SortByKey(_)
SortByKey(S) ==
    IF S = {} THEN << >>
    ELSE LET m == CHOOSE x \in S : \A y \in S \ {x} : StringLess(x, y)
         IN  << m >> \o SortByKey(S \ {m})

\* The orders in which a HashMap may yield the keys S.
IterationOrders(S) ==
    { f \in [1..Cardinality(S) -> S] : \A i, j \in 1..Cardinality(S) : i # j => f[i] # f[j] }

\* ------------------------------------------------------------- file system
\* A regular file: its lines and whether the last one ends with a newline.
File(lines, eol) == [lines |-> lines, eol |-> eol]

EmptyFile == File(<< >>, FALSE)

\* The bytes a truncation by another opener leaves before a later offset.
HoleLine == << "<nul>" >>

\* write(2) of whole lines at line offset off of a file.
WriteAt(f, off, data) ==
    LET n == IF off + Len(data) > Len(f.lines) THEN off + Len(data) ELSE Len(f.lines)
    IN  IF data = << >> THEN f
        ELSE File([i \in 1..n |->
                      IF i > off /\ i <= off + Len(data) THEN data[i - off]
                      ELSE IF i <= Len(f.lines) THEN f.lines[i]
                      ELSE HoleLine],
                  IF off + Len(data) >= Len(f.lines) THEN TRUE ELSE f.eol)

\* The paths that exist, in the glob's order.
Existing(f) == SelectSeq(PathSeq, LAMBDA p : f[p] # 0)

RankIn(s, p) == CHOOSE i \in 1..Len(s) : s[i] = p

\* After the process has exited no descriptor is open: files are their names.
CompactFs(f) == [p \in Paths |-> IF f[p] = 0 THEN 0 ELSE RankIn(Existing(f), p)]

CompactInodes(f, ino) == [i \in 1..Len(Existing(f)) |-> ino[f[Existing(f)[i]]]]

\* ------------------------------------------------------------ sample input
Plain == << "x" >>

Todo(title) == << "//", " ", "TODO", ":", " ", title >>

TodoTight(title) == << "y", "//", "FIXME", ":", title >>

Marked(n, title) == << "//", " ", "TODO", "(", FormatId(n), ")", ":", " ", title >>

Quoted == << "f", "\"", "//", " ", "TODO", ":", " ", "q", "\"" >>

\* Source trees: for each existing path its content.
SampleTrees ==
    { [p \in {P("a", "rs")} |-> File(<< Todo("t1"), Plain, TodoTight("t2") >>, TRUE)],
      [p \in {P("a", "rs")} |-> File(<< Quoted, Marked(1, "t1"), Todo("t2") >>, FALSE)],
      [p \in {P("a", "rs"), P("b", "rs")} |->
          IF p.stem = "a" THEN File(<< Todo("t1"), Marked(0, "t3") >>, TRUE)
          ELSE File(<< TodoTight("t2"), Plain >>, TRUE)],
      [p \in {P("a", "rs"), P("b", "rs")} |->
          IF p.stem = "a" THEN File(<< Marked(0, "t1") >>, TRUE)
          ELSE File(<< Marked(2, "t2"), Todo("t3") >>, TRUE)],
      [p \in {P("a", "rs")} |-> File(<< Marked(0, "t1"), Plain >>, TRUE)],
      [p \in {P("a", "rs"), P("a", "c")} |->
          IF p.ext = "rs" THEN File(<< Todo("t1") >>, TRUE)
          ELSE File(<< Plain, Todo("t2") >>, TRUE)],
      [p \in {P("a", "rs"), P("a", "tmp")} |->
          IF p.ext = "rs" THEN File(<< Todo("t1") >>, TRUE)
          ELSE File(<< Plain, Marked(1, "t2") >>, TRUE)],
      [p \in {P("a", "rs"), P("b", "rs")} |->
          IF p.stem = "a" THEN File(<< Plain, Plain, Todo("t1") >>, TRUE)
          ELSE File(<< Todo("t2") >>, TRUE)] }

\* What may stand before an annotation on its line.
SamplePrefixes ==
    { << >>,
      << "x", " " >>,
      << "f", "\"" >>,
      << "f", "\"", "q", "\"", " " >>,
      << "\"", "\"", "\"" >>,
      << "f", "\"", "\\", "\"" >>,
      << "f", "\"", "//", " ", "TODO", ":", " ", "q", "\"", " " >>,
      << "f", "\"", "q", "\"", "g", "\"" >> }

\* A marker and what follows it, with the fields it carries; valid: it has
\* the shape marker, category, optional (digits), colon, title.
Annotation(tokens, category, id, title, valid) ==
    [tokens |-> tokens, category |-> category, id |-> id, title |-> title, valid |-> valid]

SampleAnnotations ==
    { Annotation(<< "//", " ", "TODO", ":", " ", "t" >>, "TODO", NoId, << "t" >>, TRUE),
      Annotation(<< "//", "FIXME", ":", "t" >>, "FIXME", NoId, << "t" >>, TRUE),
      Annotation(<< "//", " ", "TODO", "(", "1", ")", ":", " ", "t" >>, "TODO", "1", << "t" >>, TRUE),
      Annotation(<< "//", " ", " ", "FIXME", "(", "12", ")", ":", "t", " ", "w" >>,
                 "FIXME", "12", << "t", " ", "w" >>, TRUE),
      Annotation(<< "//", " ", "TODO", ":", " ", "say", " ", "\"", "hi", "\"" >>,
                 "TODO", NoId, << "say", " ", "\"", "hi", "\"" >>, TRUE),
      Annotation(<< "//", " ", "TODO", " ", "t" >>, "TODO", NoId, << "t" >>, FALSE),
      Annotation(<< "//", " ", "TODO", "(", "x", ")", ":", " ", "t" >>, "TODO", NoId, << "t" >>, FALSE),
      Annotation(<< "//", ":", " ", "t" >>, "", NoId, << "t" >>, TRUE),
      Annotation(<< "//", " ", "(", "3", ")", ":", "t" >>, "", "3", << "t" >>, TRUE) }

\* The category lists of the sample configurations; << >> is `"patterns": []`.
SamplePatterns == { << "TODO", "FIXME" >>, << "FIXME" >>, << "TODO" >>, << >> }

StoredItem(title, line, done) == Item(<< title >>, "TODO", P("a", "rs"), line, done)

\* .mrdm/data.json: missing, not a TodoList document, or a TodoList.
\* size: the length of the file in units of one buffered write of the
\* serializer (the document's head, then one unit per entry).
StoreFile(kind, items) ==
    [ kind |-> kind, items |-> items,
      size |-> IF kind = "ok" THEN 1 + Cardinality(DOMAIN items)
               ELSE IF kind = "malformed" THEN 1 ELSE 0 ]

SampleStores ==
    { StoreFile("missing", EmptyMap),
      StoreFile("malformed", EmptyMap),
      StoreFile("ok", EmptyMap),
      StoreFile("ok", [k \in {"1"} |-> StoredItem("t1", 2, TRUE)]),
      StoreFile("ok", [k \in {"3"} |-> StoredItem("t9", 1, FALSE)]),
      StoreFile("ok", [k \in {"0", "1"} |-> StoredItem("t1", 1, k = "0")]),
      StoreFile("ok", [k \in {"0", "2"} |-> StoredItem("t1", 1, k = "0")]) }

\* One line of operator input as read_line returns it ("" at end of input).
Answers == { "d\n", "D\n", "u\n", " U \n", "r\n", "" }

\* input.trim().to_lowercase()
TrimLower(s) ==
    CASE s \in {"d\n", "D\n"} -> "d"
      [] s \in {"u\n", " U \n"} -> "u"
      [] s = "r\n" -> "r"
      [] OTHER -> ""

\* ------------------------------------------------------------ state tuples
vars == << fs, inodes, store, storeTmp, mpc, cmd, exit, prev_todo, current_length,
           todo_items, holders, handles, joined, task, final_todo, deleted_keys,
           undone_keys, base, allocs, everAllocated, preScan, recorded, answered,
           dupIds, lastRun, dirty, loadLog, runs, edits, faults, patterns, checklist,
           prompts, preStore, persistFault >>

fsVars == << fs, inodes >>

storeVars == << store, storeTmp >>

mainVars == << mpc, cmd, exit, prev_todo, handles, joined >>

doneVars == << final_todo, deleted_keys, undone_keys, answered, dupIds, checklist, prompts >>

histVars == << base, everAllocated, preScan, lastRun, dirty, loadLog, runs, edits,
              patterns, preStore, persistFault >>

IdleTask ==
    [ pc |-> "none", content |-> << >>, i |-> 1, fd |-> 0, off |-> 0, buf |-> << >>,
      current_idx |-> 0, err |-> FALSE, wfail |-> FALSE ]

NoRun == [ cmd |-> "none", exit |-> "none", recorded |-> {}, dirty |-> FALSE,
           handles |-> << >> ]

InitWith(tree, st, ps) ==
    LET f0 == [p \in Paths |-> IF p \in DOMAIN tree THEN 1 ELSE 0]
    IN  /\ fs = CompactFs(f0)
        /\ inodes = [i \in 1..Len(Existing(f0)) |-> tree[Existing(f0)[i]]]
        /\ store = st
        /\ storeTmp = StoreFile("missing", EmptyMap)
        /\ mpc = "idle" /\ cmd = "none" /\ exit = "none"
        /\ prev_todo = EmptyMap /\ current_length = 0 /\ todo_items = EmptyMap
        /\ holders = {} /\ handles = << >> /\ joined = 0
        /\ task = [p \in Paths |-> IdleTask]
        /\ final_todo = EmptyMap /\ deleted_keys = {} /\ undone_keys = {}
        /\ base = 0 /\ allocs = << >> /\ everAllocated = {}
        /\ preScan = [p \in Paths |-> EmptyFile]
        /\ recorded = {} /\ answered = EmptyMap /\ dupIds = << >>
        /\ lastRun = NoRun /\ dirty = FALSE
        /\ loadLog = [kind |-> "none", result |-> "none"]
        /\ runs = 0 /\ edits = 0 /\ faults = 0
        /\ patterns = ps
        /\ checklist = << >> /\ prompts = << >> /\ preStore = st
        /\ persistFault = "none"

InitTree(tree, st) == InitWith(tree, st, Patterns)

Init == \E tree \in SampleTrees, st \in SampleStores : InitTree(tree, st)

\* One file of one line, an empty store, one of the sample configurations.
InitMatch ==
    \E pre \in SamplePrefixes, ann \in SampleAnnotations, ps \in SamplePatterns :
        InitWith([p \in {P("a", "rs")} |-> File(<< pre \o ann.tokens >>, TRUE)],
                 StoreFile("ok", EmptyMap), ps)

\* --------------------------------------------------- get_todos_from_one_file
Line(t) == task[t].content[task[t].i]

AtLine(t) == task[t].pc = "line" /\ task[t].i <= Len(task[t].content)

\* BufWriter: the next line does not fit, the buffer is written out first.
NeedsFlush(tk) == Len(tk.buf) + 1 > BufCapacity

\* writeln!(outbuf, "{}", line): the task after it
BufWriteln(tk, line) ==
    IF NeedsFlush(tk)
    THEN [tk EXCEPT !.buf = << line >>, !.off = @ + Len(tk.buf)]
    ELSE [tk EXCEPT !.buf = Append(@, line)]

\* writeln!(outbuf, "{}", line): the files after it
FlushedInodes(tk) ==
    IF NeedsFlush(tk)
    THEN [inodes EXCEPT ![tk.fd] = WriteAt(@, tk.off, tk.buf)]
    ELSE inodes

\* A lock that excludes nobody.
LockFreeAlways(h) == TRUE

\* Mutex::lock on todo_items returns once no other task holds the guard.
LockFree(h) == h = {}

\* std::fs::read_to_string(&path)
ReadFile(t) ==
    /\ task[t].pc = "read"
    /\ task' = [task EXCEPT ![t] =
           IF fs[t] = 0 THEN [@ EXCEPT !.pc = "failed", !.err = TRUE]
           ELSE [@ EXCEPT !.pc = "open", !.content = inodes[fs[t]].lines]]
    /\ UNCHANGED << fsVars, storeVars, mainVars, doneVars, histVars, current_length,
                    todo_items, holders, allocs, recorded, faults >>

\* OpenOptions::new().write(true).create(true).truncate(true)
\*     .open(path.with_extension("tmp")); BufWriter::new
OpenTmp(t) ==
    LET tmp == WithExtensionTmp(t)
        ino == IF fs[tmp] = 0 THEN Len(inodes) + 1 ELSE fs[tmp]
    IN  /\ task[t].pc = "open"
        /\ fs' = [fs EXCEPT ![tmp] = ino]
        /\ inodes' = IF fs[tmp] = 0 THEN Append(inodes, EmptyFile)
                     ELSE [inodes EXCEPT ![ino] = EmptyFile]
        /\ task' = [task EXCEPT ![t] =
               [@ EXCEPT !.pc = "line", !.i = 1, !.fd = ino, !.off = 0, !.buf = << >>]]
        /\ UNCHANGED << storeVars, mainVars, doneVars, histVars, current_length,
                        todo_items, holders, allocs, recorded, faults >>

\* None => writeln!(outbuf, "{}", line)
CopyLine(t) ==
    /\ AtLine(t)
    /\ ~IsMatch(Line(t))
    /\ inodes' = FlushedInodes(task[t])
    /\ task' = [task EXCEPT ![t] = [BufWriteln(@, Line(t)) EXCEPT !.i = @ + 1]]
    /\ UNCHANGED << fs, storeVars, mainVars, doneVars, histVars, current_length,
                    todo_items, holders, allocs, recorded, faults >>

\* Some(caps) => match todo_items.lock() { Ok(mut todo_items) => ...
LockItems(t) ==
    /\ AtLine(t)
    /\ IsMatch(Line(t))
    /\ LockFree(holders)
    /\ Captures(Line(t)).id = NoId => current_length < MaxId
    /\ holders' = holders \cup {t}
    /\ task' = [task EXCEPT ![t].pc =
           IF Captures(Line(t)).id = NoId THEN "load" ELSE "keep"]
    /\ UNCHANGED << fsVars, storeVars, mainVars, doneVars, histVars, current_length,
                    todo_items, allocs, recorded, faults >>

\* todo_items.items.insert(id, TodoItem { title, category, path, line: i + 1, done: false })
InsertFound(t, id) ==
    LET caps == Captures(Line(t))
        item == Item(caps.title, caps.category, t, task[t].i, FALSE)
    IN  /\ todo_items' = MapInsert(todo_items, id, item)
        /\ recorded' = recorded \cup { [id |-> id, item |-> item] }

\* Some(id) => { writeln!(outbuf, "{}", line)?; id.as_str().to_string() }, insert
KeepLine(t) ==
    /\ task[t].pc = "keep"
    /\ inodes' = FlushedInodes(task[t])
    /\ InsertFound(t, Captures(Line(t)).id)
    /\ holders' = holders \ {t}
    /\ task' = [task EXCEPT ![t] =
           [BufWriteln(@, Line(t)) EXCEPT !.i = @ + 1, !.pc = "line"]]
    /\ UNCHANGED << fs, storeVars, mainVars, doneVars, histVars, current_length,
                    allocs, faults >>

\* let current_idx = *current_length.lock().unwrap();
LoadLength(t) ==
    /\ task[t].pc = "load"
    /\ task' = [task EXCEPT ![t] = [@ EXCEPT !.current_idx = current_length, !.pc = "incr"]]
    /\ UNCHANGED << fsVars, storeVars, mainVars, doneVars, histVars, current_length,
                    todo_items, holders, allocs, recorded, faults >>

\* *current_length.lock().unwrap() += 1;
IncrLength(t) ==
    /\ task[t].pc = "incr"
    /\ current_length' = current_length + 1
    /\ allocs' = Append(allocs, task[t].current_idx)
    /\ task' = [task EXCEPT ![t].pc = "stamp"]
    /\ UNCHANGED << fsVars, storeVars, mainVars, doneVars, histVars, todo_items,
                    holders, recorded, faults >>

\* let id = format!("{}", current_idx); writeln!(outbuf, "{}", re.replace(..))?; insert
StampLine(t) ==
    LET id == FormatId(task[t].current_idx)
    IN  /\ task[t].pc = "stamp"
        /\ inodes' = FlushedInodes(task[t])
        /\ InsertFound(t, id)
        /\ holders' = holders \ {t}
        /\ task' = [task EXCEPT ![t] =
               [BufWriteln(@, ReplaceWithId(Line(t), id)) EXCEPT !.i = @ + 1, !.pc = "line"]]
        /\ UNCHANGED << fs, storeVars, mainVars, doneVars, histVars, current_length,
                        allocs, faults >>

\* std::fs::rename(path.with_extension("tmp"), path)?  (outbuf is still alive)
RenameTmp(t) ==
    LET tmp == WithExtensionTmp(t)
    IN  /\ task[t].pc = "line"
        /\ task[t].i > Len(task[t].content)
        /\ fs' = IF fs[tmp] = 0 \/ tmp = t THEN fs
                 ELSE [fs EXCEPT ![t] = fs[tmp], ![tmp] = 0]
        /\ task' = [task EXCEPT ![t] = [@ EXCEPT !.pc = "drop", !.err = (fs[tmp] = 0)]]
        /\ UNCHANGED << inodes, storeVars, mainVars, doneVars, histVars, current_length,
                        todo_items, holders, allocs, recorded, faults >>

\* outbuf goes out of scope: BufWriter::drop writes what is buffered and
\* ignores the outcome; the function returns Ok(()) or the error.
DropOutbuf(t) ==
    /\ task[t].pc = "drop"
    /\ inodes' = [inodes EXCEPT ![task[t].fd] = WriteAt(@, task[t].off, task[t].buf)]
    /\ task' = [task EXCEPT ![t] =
           [@ EXCEPT !.pc = IF task[t].err THEN "failed" ELSE "ok",
                     !.off = @ + Len(task[t].buf), !.buf = << >>]]
    /\ UNCHANGED << fs, storeVars, mainVars, doneVars, histVars, current_length,
                    todo_items, holders, allocs, recorded, faults >>

\* A write(2) of the scratch file fails while writeln! empties the buffer:
\* the `?` (or the explicit Err) returns, the guard is released.
WriteFail(t) ==
    /\ faults < MaxFaults
    /\ \/ AtLine(t) /\ ~IsMatch(Line(t))
       \/ task[t].pc \in {"keep", "stamp"}
    /\ NeedsFlush(task[t])
    /\ faults' = faults + 1
    /\ holders' = holders \ {t}
    /\ task' = [task EXCEPT ![t] = [@ EXCEPT !.pc = "drop", !.err = TRUE, !.wfail = TRUE]]
    /\ UNCHANGED << fsVars, storeVars, mainVars, doneVars, histVars, current_length,
                    todo_items, allocs, recorded >>

\* The write(2) in BufWriter::drop fails: the error is dropped with the buffer.
DropFail(t) ==
    /\ faults < MaxFaults
    /\ task[t].pc = "drop"
    /\ task[t].buf # << >>
    /\ faults' = faults + 1
    /\ task' = [task EXCEPT ![t] =
           [@ EXCEPT !.pc = IF task[t].err THEN "failed" ELSE "ok",
                     !.buf = << >>, !.wfail = TRUE]]
    /\ UNCHANGED << fsVars, storeVars, mainVars, doneVars, histVars, current_length,
                    todo_items, holders, allocs, recorded >>

TaskStep(t) ==
    \/ ReadFile(t) \/ OpenTmp(t) \/ CopyLine(t) \/ LockItems(t) \/ KeepLine(t)
    \/ LoadLength(t) \/ IncrLength(t) \/ StampLine(t) \/ RenameTmp(t) \/ DropOutbuf(t)

\* --------------------------------------------------------------------- main
\* The process ends: its threads and descriptors go with it.
ExitProcess(status) ==
    /\ mpc' = "idle"
    /\ exit' = status
    /\ task' = [p \in Paths |-> IdleTask]
    /\ holders' = {}
    /\ fs' = CompactFs(fs)
    /\ inodes' = CompactInodes(fs, inodes)

\* A new invocation of the program begins (history only).
NewRun(c) ==
    /\ cmd' = c
    /\ runs' = runs + 1
    /\ everAllocated' = everAllocated \cup { FormatId(allocs[i]) : i \in 1..Len(allocs) }
    /\ lastRun' = [ cmd |-> cmd, exit |-> exit, recorded |-> recorded, dirty |-> dirty,
                    handles |-> handles ]
    /\ dirty' = FALSE
    /\ loadLog' = [kind |-> store.kind,
                   result |-> IF store.kind = "missing" THEN "failed" ELSE "proceeded"]
    /\ allocs' = << >>
    /\ recorded' = {}
    /\ final_todo' = EmptyMap /\ deleted_keys' = {} /\ undone_keys' = {}
    /\ answered' = EmptyMap /\ dupIds' = << >>
    /\ checklist' = << >> /\ prompts' = << >>
    /\ preStore' = store
    /\ persistFault' = "none"
    /\ patterns' = patterns

\* serde_json::from_reader(rdr).unwrap_or_else(|_| TodoList { items: HashMap::new() })
LoadStore(f) == IF f.kind = "ok" THEN f.items ELSE EmptyMap

\* TodoCommands::List: Arc::new(Mutex::new(prev_todo.items.len()))
ListSeed(prev) == Cardinality(DOMAIN prev)

\* TodoCommands::Done: prev_iter.map(|(id, _)| id.parse::<usize>().unwrap_or(0)).max().unwrap_or(0)
DoneSeed(prev) ==
    IF DOMAIN prev = {} THEN 0 ELSE SetMax({ ParseIdOr0(k) : k \in DOMAIN prev })

\* get_todos up to the join loop: create_regex, glob, thread::spawn per entry.
BeginScan(seed) ==
    /\ current_length' = seed
    /\ base' = seed
    /\ todo_items' = EmptyMap
    /\ holders' = {}
    /\ handles' = Existing(fs)
    /\ joined' = 0
    /\ task' = [p \in Paths |-> IF fs[p] # 0 THEN [IdleTask EXCEPT !.pc = "read"] ELSE IdleTask]
    /\ preScan' = [p \in Paths |-> IF fs[p] # 0 THEN inodes[fs[p]] ELSE EmptyFile]

\* The open of OUT_PATH for reading fails (`?`): the action ends with the error.
\* Done has created .mrdm/data.tmp by then.
LoadFails(c) ==
    /\ mpc = "idle"
    /\ runs < MaxRuns
    /\ store.kind = "missing"
    /\ NewRun(c)
    /\ exit' = "err"
    /\ storeTmp' = IF c = "done" /\ storeTmp.kind = "missing"
                   THEN StoreFile("empty", EmptyMap) ELSE storeTmp
    /\ UNCHANGED << fsVars, store, mpc, prev_todo, current_length, todo_items, holders,
                    handles, joined, task, base, preScan, edits, faults >>

\* TodoCommands::List up to get_todos' join loop
StartList ==
    /\ mpc = "idle"
    /\ runs < MaxRuns
    /\ store.kind # "missing"
    /\ NewRun("list")
    /\ prev_todo' = LoadStore(store)
    /\ BeginScan(ListSeed(LoadStore(store)))
    /\ mpc' = "join"
    /\ exit' = "none"
    /\ UNCHANGED << fsVars, storeVars, edits, faults >>

\* TodoCommands::Done up to get_todos' join loop
StartDone ==
    /\ mpc = "idle"
    /\ runs < MaxRuns
    /\ store.kind # "missing"
    /\ NewRun("done")
    /\ storeTmp' = IF storeTmp.kind = "missing" THEN StoreFile("empty", EmptyMap) ELSE storeTmp
    /\ prev_todo' = LoadStore(store)
    /\ BeginScan(DoneSeed(LoadStore(store)))
    /\ mpc' = "join"
    /\ exit' = "none"
    /\ UNCHANGED << fsVars, store, edits, faults >>

\* for handle in handles { handle.join().unwrap()?; }: the next handle returned Ok
JoinOne ==
    /\ mpc = "join"
    /\ joined < Len(handles)
    /\ task[handles[joined + 1]].pc = "ok"
    /\ joined' = joined + 1
    /\ UNCHANGED << fsVars, storeVars, mpc, cmd, exit, prev_todo, handles, doneVars,
                    histVars, current_length, todo_items, holders, task, allocs,
                    recorded, faults >>

\* handle.join().unwrap()?: the next handle returned Err, main returns it
JoinErr ==
    /\ mpc = "join"
    /\ joined < Len(handles)
    /\ task[handles[joined + 1]].pc = "failed"
    /\ ExitProcess("err")
    /\ UNCHANGED << storeVars, cmd, prev_todo, handles, joined, doneVars, histVars,
                    current_length, todo_items, allocs, recorded, faults >>

\* TodoCommands::List after get_todos: the sorted pairs go back into a HashMap
\* (HashMap::from_iter), get_outbuf, write_todo_items! iterates that HashMap.
ListDone ==
    /\ mpc = "join"
    /\ cmd = "list"
    /\ joined = Len(handles)
    /\ \E order \in IterationOrders(DOMAIN todo_items) : checklist' = order
    /\ ExitProcess("ok")
    /\ UNCHANGED << storeVars, cmd, prev_todo, handles, joined, final_todo, deleted_keys,
                    undone_keys, answered, dupIds, prompts, histVars,
                    current_length, todo_items, allocs, recorded, faults >>

\* TodoCommands::Done after get_todos: the key sets and final_todo
Classify ==
    LET prev_done_keys == { k \in DOMAIN prev_todo : prev_todo[k].done }
        prev_not_done_keys == { k \in DOMAIN prev_todo : ~prev_todo[k].done }
        curr_keys == DOMAIN todo_items
    IN  /\ mpc = "join"
        /\ cmd = "done"
        /\ joined = Len(handles)
        /\ deleted_keys' = prev_not_done_keys \ curr_keys
        /\ undone_keys' = prev_done_keys \cap curr_keys
        /\ final_todo' = MapChain(prev_todo, todo_items)
        /\ mpc' = "reconcile"
        /\ UNCHANGED << fsVars, storeVars, cmd, exit, prev_todo, handles, joined, answered,
                        dupIds, checklist, prompts, histVars, current_length, todo_items, holders, task,
                        allocs, recorded, faults >>

\* for key in deleted_keys: prompt, read_line, done = true or remove
PromptDeleted(key, input) ==
    /\ mpc = "reconcile"
    /\ key \in deleted_keys
    /\ deleted_keys' = deleted_keys \ {key}
    /\ final_todo' =
           IF key \notin DOMAIN final_todo THEN final_todo
           ELSE IF TrimLower(input) = "d" THEN [final_todo EXCEPT ![key].done = TRUE]
           ELSE MapRemove(final_todo, key)
    /\ answered' = IF key \in DOMAIN final_todo
                   THEN MapInsert(answered, key, TrimLower(input)) ELSE answered
    /\ prompts' = IF key \in DOMAIN final_todo
                  THEN Append(prompts, [key |-> key, input |-> input]) ELSE prompts
    /\ UNCHANGED << fsVars, storeVars, mainVars, undone_keys, dupIds, checklist, histVars,
                    current_length, todo_items, holders, task, allocs, recorded, faults >>

\* The id given to the duplicate: let length = final_todo.len(); format!("{}", length)
DuplicateId(final) == FormatId(Cardinality(DOMAIN final))

\* for key in undone_keys: prompt, read_line, done = false or insert a clone
PromptUndone(key, input) ==
    /\ mpc = "reconcile"
    /\ deleted_keys = {}
    /\ key \in undone_keys
    /\ undone_keys' = undone_keys \ {key}
    /\ final_todo' =
           IF key \notin DOMAIN final_todo THEN final_todo
           ELSE IF TrimLower(input) = "u" THEN [final_todo EXCEPT ![key].done = FALSE]
           ELSE MapInsert(final_todo, DuplicateId(final_todo), final_todo[key])
    /\ answered' = IF key \in DOMAIN final_todo
                   THEN MapInsert(answered, key, TrimLower(input)) ELSE answered
    /\ dupIds' = IF key \in DOMAIN final_todo /\ TrimLower(input) # "u"
                 THEN Append(dupIds, DuplicateId(final_todo)) ELSE dupIds
    /\ prompts' = IF key \in DOMAIN final_todo
                  THEN Append(prompts, [key |-> key, input |-> input]) ELSE prompts
    /\ UNCHANGED << fsVars, storeVars, mainVars, deleted_keys, checklist, histVars,
                    current_length,
                    todo_items, holders, task, allocs, recorded, faults >>

\* What the model records as read when read_line returns Err.
ReadError == "<error>"

\* std::io::stdin().read_line(&mut input)? returns Err for the prompt of key:
\* main returns the error, nothing is persisted.
PromptReadFails(key) ==
    /\ mpc = "reconcile"
    /\ faults < MaxFaults
    /\ \/ key \in deleted_keys
       \/ deleted_keys = {} /\ key \in undone_keys
    /\ key \in DOMAIN final_todo
    /\ faults' = faults + 1
    /\ prompts' = Append(prompts, [key |-> key, input |-> ReadError])
    /\ ExitProcess("err")
    /\ UNCHANGED << storeVars, cmd, prev_todo, handles, joined, final_todo, deleted_keys,
                    undone_keys, answered, dupIds, checklist, histVars, current_length,
                    todo_items, allocs, recorded >>

\* Size of a file of the store, in units.
DocSize(f) == f.size

\* data.tmp after the first w units of the document of items have been written
\* from its start: it was opened without truncate, what it held beyond stays.
Overlay(old, items, w) ==
    LET s == 1 + Cardinality(DOMAIN items)
        n == IF DocSize(old) > w THEN DocSize(old) ELSE w
    IN  IF w = 0 \/ (old.kind = "ok" /\ old.items = items) THEN old
        ELSE IF w = s /\ DocSize(old) <= s THEN StoreFile("ok", items)
        ELSE [StoreFile("malformed", EmptyMap) EXCEPT !.size = n]

\* serde_json::to_writer_pretty(data_writer, ..) with every write succeeding.
WriteDoc(old, items) == Overlay(old, items, 1 + Cardinality(DOMAIN items))

\* The units of a document of s units that data_writer has written through
\* when the serializer returns; the rest is in its buffer.
WrittenThrough(s) == BufCapacity * ((s - 1) \div BufCapacity)

\* sort, write_todo_items!, to_writer_pretty, rename(data.tmp, data.json)
Persist ==
    /\ mpc = "reconcile"
    /\ deleted_keys = {}
    /\ undone_keys = {}
    /\ checklist' = SortByKey(DOMAIN final_todo)
    /\ store' = WriteDoc(storeTmp, final_todo)
    /\ storeTmp' = StoreFile("missing", EmptyMap)
    /\ ExitProcess("ok")
    /\ UNCHANGED << cmd, prev_todo, handles, joined, final_todo, deleted_keys, undone_keys,
                    answered, dupIds, prompts, histVars, current_length,
                    todo_items, allocs, recorded, faults >>

\* Persisting fails at one step.
\*   "write":  a write(2) inside to_writer_pretty fails at the k-th time the
\*             buffer is written out; `?` returns the error, data_writer is
\*             dropped and writes out what it holds.
\*   "flush":  the write(2) in the drop of data_writer, at the end of
\*             to_writer_pretty, fails; the drop ignores it, rename follows.
\*   "rename": std::fs::rename fails; `?` returns the error.
PersistFails(step) ==
    LET s == 1 + Cardinality(DOMAIN final_todo)
    IN  /\ mpc = "reconcile"
        /\ deleted_keys = {}
        /\ undone_keys = {}
        /\ faults < MaxFaults
        /\ faults' = faults + 1
        /\ persistFault' = step
        /\ checklist' = SortByKey(DOMAIN final_todo)
        /\ \/ /\ step = "write"
              /\ \E k \in 1..((s - 1) \div BufCapacity) :
                     storeTmp' = Overlay(storeTmp, final_todo, k * BufCapacity)
              /\ store' = store
              /\ ExitProcess("err")
           \/ /\ step = "flush"
              /\ store' = Overlay(storeTmp, final_todo, WrittenThrough(s))
              /\ storeTmp' = StoreFile("missing", EmptyMap)
              /\ ExitProcess("ok")
           \/ /\ step = "rename"
              /\ storeTmp' = WriteDoc(storeTmp, final_todo)
              /\ store' = store
              /\ ExitProcess("err")
        /\ UNCHANGED << cmd, prev_todo, handles, joined, final_todo, deleted_keys,
                        undone_keys, answered, dupIds, prompts, base, everAllocated,
                        preScan, lastRun, dirty, loadLog, runs, edits, patterns, preStore,
                        current_length, todo_items, allocs, recorded >>

\* ------------------------------------------------------------- environment
\* Between invocations the developer adds an annotation to a source file.
EditAdd(p) ==
    /\ mpc = "idle"
    /\ edits < MaxEdits
    /\ fs[p] # 0
    /\ inodes' = [inodes EXCEPT ![fs[p]] = File(Append(@.lines, Todo("t4")), TRUE)]
    /\ dirty' = TRUE
    /\ edits' = edits + 1
    /\ UNCHANGED << fs, storeVars, mainVars, doneVars, base, everAllocated, preScan,
                    lastRun, loadLog, runs, patterns, preStore, persistFault, current_length, todo_items, holders, task, allocs,
                    recorded, faults >>

\* Between invocations the developer deletes a line of a source file.
EditRemove(p) ==
    /\ mpc = "idle"
    /\ edits < MaxEdits
    /\ fs[p] # 0
    /\ \E n \in 1..Len(inodes[fs[p]].lines) :
           inodes' = [inodes EXCEPT ![fs[p]] =
               File(SubSeq(@.lines, 1, n - 1) \o SubSeq(@.lines, n + 1, Len(@.lines)), @.eol)]
    /\ dirty' = TRUE
    /\ edits' = edits + 1
    /\ UNCHANGED << fs, storeVars, mainVars, doneVars, base, everAllocated, preScan,
                    lastRun, loadLog, runs, patterns, preStore, persistFault, current_length, todo_items, holders, task, allocs,
                    recorded, faults >>

\* The process is killed while the scan runs.
Kill ==
    /\ mpc = "join"
    /\ ExitProcess("killed")
    /\ UNCHANGED << storeVars, cmd, prev_todo, handles, joined, doneVars, histVars,
                    current_length, todo_items, allocs, recorded, faults >>

\* --------------------------------------------------------------- properties
\* Number of double quotes among the first n tokens.
RECURSIVE QuoteCount(_, _)
QuoteCount(line, n) ==
    IF n = 0 THEN 0
    ELSE QuoteCount(line, n - 1) + (IF line[n] = "\"" THEN 1 ELSE 0)

Running(t) == task[t].pc \notin {"none", "ok", "failed"}

\* The file a path names now (the empty file when it names none).
FileAt(p) == IF fs[p] = 0 THEN EmptyFile ELSE inodes[fs[p]]

Unmarked(line) == IsMatch(line) /\ Captures(line).id = NoId

AllocatedIds == { FormatId(allocs[i]) : i \in 1..Len(allocs) }

\* C1: within one scan, whatever the interleaving of the per-file tasks, the
\* M values the allocator has handed out are base, base+1, .., base+M-1 in
\* this order, hence pairwise distinct.
C1_AllocationsConsecutive ==
    \A i \in 1..Len(allocs) : allocs[i] = base + (i - 1)

\* C1 witness: two tasks of one scan are both running, each has been handed
\* an id, and one of them holds its id while the other goes on.
C1_Witness ==
    \E t1 \in Paths, t2 \in Paths :
        /\ t1 # t2
        /\ task[t1].pc = "stamp"
        /\ Running(t2)
        /\ \E r \in recorded : r.item.path = t2 /\ r.id \in AllocatedIds
        /\ Len(allocs) >= 2

\* The highest numeric id of the store that was loaded.
HighestStoredId == SetMax({ ParseIdOr0(k) : k \in DOMAIN prev_todo })

\* C2: the first id a scan allocates (list or done) is one more than the
\* highest numeric id of the previously persisted store, 0 when it is empty.
C2_FirstIdAboveStore ==
    allocs # << >> =>
        allocs[1] = IF DOMAIN prev_todo = {} THEN 0 ELSE HighestStoredId + 1

\* C2, the list action alone.
C2_ListFirstId == cmd = "list" => C2_FirstIdAboveStore

\* C2, the done action alone.
C2_DoneFirstId == cmd = "done" => C2_FirstIdAboveStore

\* C3: an id allocated by an invocation equals no id allocated by an earlier
\* invocation and no id of the persisted store the invocation loaded.
C3_IdsNeverReused ==
    \A i \in 1..Len(allocs) :
        /\ FormatId(allocs[i]) \notin everAllocated
        /\ FormatId(allocs[i]) \notin DOMAIN prev_todo

\* C3 restricted to ids of earlier invocations.
C3_NotAllocatedBefore ==
    \A i \in 1..Len(allocs) : FormatId(allocs[i]) \notin everAllocated

\* A list invocation has ended with success right after another one that
\* ended with success, over the same files, with no edit since the first.
RescanDone ==
    /\ mpc = "idle" /\ cmd = "list" /\ exit = "ok"
    /\ lastRun.cmd = "list" /\ lastRun.exit = "ok"
    /\ ~lastRun.dirty /\ ~dirty
    /\ lastRun.handles = handles

\* C4: a list scan that follows a completed list scan of the same unedited
\* files allocates no id, leaves every file as it found it, and records every
\* annotation under the id, title, category, path and line of the first scan.
C4_RescanIdempotent ==
    RescanDone =>
        /\ allocs = << >>
        /\ \A p \in Paths : FileAt(p) = preScan[p]
        /\ recorded = lastRun.recorded

\* C4 when no scanned file has the extension tmp (none is a scratch path).
C4_NoScratchScanned ==
    (\A i \in 1..Len(handles) : handles[i].ext # "tmp") => C4_RescanIdempotent

\* C4 witness: the second scan is over and the first one had stamped ids
\* into two files.
C4_Witness ==
    /\ RescanDone
    /\ Cardinality(everAllocated) >= 2
    /\ Len(handles) >= 2
    /\ \A p \in Paths : FileAt(p) = preScan[p]

\* No other scanned file is, or shares, the scratch file of p.
OwnScratch(p) ==
    \A i \in 1..Len(handles) :
        /\ handles[i] # WithExtensionTmp(p)
        /\ handles[i] # p => WithExtensionTmp(handles[i]) # WithExtensionTmp(p)

\* C5: a task that met a failing write of its scratch file (a scratch file
\* no other task touches) has returned an error, and the file at its path is
\* what it was before the scan.
C5_WriteFailureLeavesOriginal ==
    \A t \in Paths :
        (task[t].wfail /\ ~Running(t) /\ OwnScratch(t)) =>
            /\ task[t].pc = "failed"
            /\ FileAt(t) = preScan[t]

\* C5 for the writes that fail before the rename.
C5_FailureBeforeRename ==
    \A t \in Paths :
        (task[t].wfail /\ task[t].err /\ ~Running(t) /\ OwnScratch(t)) =>
            /\ task[t].pc = "failed"
            /\ FileAt(t) = preScan[t]

\* cur is the complete rewrite of pre: every line copied, every unmarked
\* annotation given an id, every line newline-terminated.
IsRewriteOf(pre, cur) ==
    /\ Len(cur.lines) = Len(pre.lines)
    /\ cur.eol = (pre.lines # << >>)
    /\ \A i \in 1..Len(pre.lines) :
           IF Unmarked(pre.lines[i])
           THEN \E n \in 0..MaxNum : cur.lines[i] = ReplaceWithId(pre.lines[i], FormatId(n))
           ELSE cur.lines[i] = pre.lines[i]

\* C6: during and after a scan, the file at every scanned path (whose
\* scratch file no other task touches) is its whole pre-scan content or its
\* whole rewrite, a kill of the process included.
C6_OriginalNeverPartial ==
    ~dirty =>
        \A i \in 1..Len(handles) :
            LET p == handles[i]
            IN  OwnScratch(p) =>
                    /\ fs[p] # 0
                    /\ (FileAt(p) = preScan[p] \/ IsRewriteOf(preScan[p], FileAt(p)))

\* C6 for the states a killed process leaves behind.
C6_KilledLeavesWhole ==
    (exit = "killed" /\ mpc = "idle") => C6_OriginalNeverPartial

\* The done action has ended with success and the store holds its result.
DoneEnded == mpc = "idle" /\ cmd = "done" /\ exit = "ok" /\ store.kind = "ok"

\* C7: after done, an id the previous store held not done and the scan did
\* not find is in the final store with done = true when the answer was d,
\* and is not in the final store for any other answer.
C7_DeletedResolved ==
    DoneEnded =>
        \A k \in DOMAIN prev_todo :
            (~prev_todo[k].done /\ k \notin DOMAIN todo_items) =>
                /\ k \in DOMAIN answered
                /\ IF answered[k] = "d"
                   THEN k \in DOMAIN store.items /\ store.items[k].done
                   ELSE k \notin DOMAIN store.items

\* C7 for the runs of done that insert no duplicate.
C7_WithoutDuplicate == dupIds = << >> => C7_DeletedResolved

SameFields(a, b) ==
    /\ a.title = b.title /\ a.category = b.category
    /\ a.path = b.path /\ a.line = b.line

\* C8: after done, an id the previous store held done and the scan found
\* again is in the final store; with done = false and no duplicate of it when
\* the answer was u; with done = true and a duplicate of it (same fields,
\* done = false, another id) for any other answer.
C8_ResurrectedResolved ==
    DoneEnded =>
        \A k \in DOMAIN prev_todo :
            (prev_todo[k].done /\ k \in DOMAIN todo_items) =>
                /\ k \in DOMAIN answered
                /\ k \in DOMAIN store.items
                /\ IF answered[k] = "u"
                   THEN /\ ~store.items[k].done
                        /\ DOMAIN store.items = (DOMAIN prev_todo) \cup (DOMAIN todo_items)
                   ELSE /\ store.items[k].done
                        /\ \E d \in (DOMAIN store.items) \ {k} :
                               /\ SameFields(store.items[d], todo_items[k])
                               /\ ~store.items[d].done

\* C8, the answer u alone.
C8_AnswerU ==
    DoneEnded =>
        \A k \in DOMAIN prev_todo :
            (prev_todo[k].done /\ k \in DOMAIN todo_items /\ k \in DOMAIN answered
                /\ answered[k] = "u" /\ undone_keys = {} /\ Len(dupIds) = 0) =>
                /\ k \in DOMAIN store.items
                /\ ~store.items[k].done
                /\ DOMAIN store.items \subseteq (DOMAIN prev_todo) \cup (DOMAIN todo_items)

\* A step of the done action that inserts a duplicate.
DuplicateInserted == Len(dupIds') = Len(dupIds) + 1

\* C9: the id given to a duplicate is no key of the result map: the insert
\* adds one entry and changes none.
C9_DuplicateIdFresh ==
    [][DuplicateInserted =>
          /\ dupIds'[Len(dupIds')] \notin DOMAIN final_todo
          /\ Cardinality(DOMAIN final_todo') = Cardinality(DOMAIN final_todo) + 1
          /\ \A k \in DOMAIN final_todo : final_todo'[k] = final_todo[k]]_vars

\* C10: when OUT_PATH is missing or malformed as an action loads it, the
\* action goes on with an empty previous store.
C10_LoadNeverFails ==
    loadLog.kind \in {"missing", "malformed"} =>
        loadLog.result = "proceeded" /\ prev_todo = EmptyMap

\* C10, the malformed store alone.
C10_MalformedIsEmpty ==
    loadLog.kind = "malformed" =>
        loadLog.result = "proceeded" /\ prev_todo = EmptyMap

\* C11: when the scan returns a task's failure to main, no task of the scan is
\* still running: every spawned task has finished.
C11_ErrorAfterAllTasks ==
    [][(mpc = "join" /\ exit' = "err") => \A t \in Paths : ~Running(t)]_vars

\* C11 for the scans in which every task has a scratch file of its own.
C11_ErrorAfterAllTasksOwnScratch ==
    [][(mpc = "join" /\ exit' = "err" /\ \A i \in 1..Len(handles) : OwnScratch(handles[i]))
          => \A t \in Paths : ~Running(t)]_vars

\* An action has ended with success and has written its checklist.
Rendered == mpc = "idle" /\ exit = "ok" /\ cmd \in {"list", "done"}

\* C12: list and done write the checklist lines in ascending id order.
C12_ChecklistAscending ==
    Rendered =>
        \A i, j \in 1..Len(checklist) : i < j => StringLess(checklist[i], checklist[j])

\* C12, the done action alone.
C12_DoneAscending == cmd = "done" => C12_ChecklistAscending

\* C12, the list action alone.
C12_ListAscending == cmd = "list" => C12_ChecklistAscending

\* C13: when a step of persisting has failed in the done action, OUT_PATH
\* holds what it held before the run.
C13_PersistFailureKeepsStore ==
    (mpc = "idle" /\ cmd = "done" /\ persistFault # "none") => store = preStore

\* C13 for the failures that the action reports.
C13_ReportedFailureKeepsStore ==
    (mpc = "idle" /\ cmd = "done" /\ persistFault \in {"write", "rename"}) =>
        exit = "err" /\ store = preStore

\* C13: a done action never turns OUT_PATH into a half-written document.
C13_NoHalfWrittenStore ==
    (mpc = "idle" /\ cmd = "done" /\ store # preStore) => store.kind = "ok"

\* C13 for the runs in which no step of persisting failed.
C13_NoHalfWrittenWithoutFault ==
    persistFault = "none" => C13_NoHalfWrittenStore

\* The operator's input was at its end ("" read) at some prompt of the run.
InputClosed == \E i \in 1..Len(prompts) : prompts[i].input = ""

\* The operator's input could not be read at some prompt of the run.
InputUnreadable == \E i \in 1..Len(prompts) : prompts[i].input = ReadError

\* C14: a done action whose operator input was closed or unreadable at a
\* prompt has ended with an error and OUT_PATH is as it was before the run.
C14_PromptFailureAborts ==
    (mpc = "idle" /\ cmd = "done" /\ (InputClosed \/ InputUnreadable)) =>
        exit = "err" /\ store = preStore

\* C14, the unreadable input alone.
C14_UnreadableInputAborts ==
    (mpc = "idle" /\ cmd = "done" /\ InputUnreadable) =>
        exit = "err" /\ store = preStore

\* A list action has ended with success.
ListEnded == mpc = "idle" /\ cmd = "list" /\ exit = "ok"

EvenQuotes(tokens) == QuoteCount(tokens, Len(tokens)) % 2 = 0

\* What the scan recorded for line i of file t.
RecordsOf(t, i) == { r \in recorded : r.item.path = t /\ r.item.line = i }

\* The line as the scan writes it for an annotation it gave the id to.
Stamped(pre, ann, id) ==
    pre \o << "//", " ", ann.category, "(", id, ")", ":", " " >> \o ann.title

\* C15: for every configured category list, a scanned line is recorded as an
\* annotation only if it holds a marker with an even number of double quotes
\* before it, followed by the recorded category; a line made of a prefix and
\* an annotation is recorded, with the annotation's category, id and title,
\* exactly when the annotation is well formed, its category is configured and
\* the prefix holds an even number of double quotes (a marker inside a
\* literal of the prefix is never the one recorded), and is otherwise copied
\* unchanged.
C15_QuoteGuard ==
    ListEnded =>
        \A k \in 1..Len(handles) :
            LET t == handles[k]
            IN  \A i \in 1..Len(preScan[t].lines) :
                    LET L == preScan[t].lines[i]
                        recs == RecordsOf(t, i)
                        out == FileAt(t).lines[i]
                    IN  /\ recs # {} =>
                               \E p \in 1..Len(L) :
                                   /\ L[p] = "//"
                                   /\ QuoteCount(L, p - 1) % 2 = 0
                                   /\ \A r \in recs :
                                          /\ r.item.category \in PatternSet
                                          /\ r.item.category # "" =>
                                                 Tok(L, SkipSpaces(L, p + 1)) = r.item.category
                        /\ \A pre \in SamplePrefixes, ann \in SampleAnnotations :
                               L = pre \o ann.tokens =>
                                   IF ann.valid /\ ann.category \in PatternSet /\ EvenQuotes(pre)
                                   THEN \E r \in recs :
                                            /\ r.item.category = ann.category
                                            /\ r.item.title = ann.title
                                            /\ IF ann.id # NoId
                                               THEN r.id = ann.id /\ out = L
                                               ELSE out = Stamped(pre, ann, r.id)
                                   ELSE recs = {} /\ out = L

\* C15 witness: a line whose prefix holds a closed string literal, followed
\* by a well-formed annotation of a configured category, has been scanned
\* and recorded.
C15_Witness ==
    /\ ListEnded
    /\ \E pre \in SamplePrefixes, ann \in SampleAnnotations :
           /\ preScan[P("a", "rs")].lines = << pre \o ann.tokens >>
           /\ QuoteCount(pre, Len(pre)) >= 2
           /\ EvenQuotes(pre)
           /\ ann.valid /\ ann.category \in PatternSet /\ ann.category # ""
           /\ RecordsOf(P("a", "rs"), 1) # {}

\* C16: with an empty category list no action gets as far as the scan: no
\* task is spawned, no file is read or rewritten, and the action does not
\* end with success.
C16_EmptyCategorySetAborts ==
    patterns = << >> =>
        /\ mpc = "idle"
        /\ exit # "ok"
        /\ \A t \in Paths : task[t].pc = "none"

\* Key k is one the done action prompts for.
IsDeleted(k) == k \in DOMAIN prev_todo /\ ~prev_todo[k].done /\ k \notin DOMAIN todo_items

IsResurrected(k) == k \in DOMAIN prev_todo /\ prev_todo[k].done /\ k \in DOMAIN todo_items

\* C17: after done, an id that is neither deleted nor resurrected is in the
\* final store; with the title, category, path and line of the current scan
\* when the scan found it, and equal to the previous entry when only the
\* previous store has it.
C17_OtherIdsCarried ==
    DoneEnded =>
        \A k \in (DOMAIN prev_todo) \cup (DOMAIN todo_items) :
            (~IsDeleted(k) /\ ~IsResurrected(k)) =>
                /\ k \in DOMAIN store.items
                /\ IF k \in DOMAIN todo_items
                   THEN SameFields(store.items[k], todo_items[k])
                   ELSE store.items[k] = prev_todo[k]

\* C17 for the runs of done that insert no duplicate.
C17_WithoutDuplicate == dupIds = << >> => C17_OtherIdsCarried

\* The ids the done action has prompted for.
PromptedKeys == { prompts[i].key : i \in 1..Len(prompts) }

\* C18: the done action has prompted once for each deleted and each
\* resurrected id, for no other id, and in ascending id order.
C18_PromptsAscendingOncePerId ==
    DoneEnded =>
        /\ PromptedKeys = { k \in DOMAIN prev_todo : IsDeleted(k) \/ IsResurrected(k) }
        /\ \A i, j \in 1..Len(prompts) :
               i < j => StringLess(prompts[i].key, prompts[j].key)

\* C18 without the order: one prompt for each deleted and each resurrected
\* id and for no other id.
C18_PromptsOncePerId ==
    DoneEnded =>
        /\ PromptedKeys = { k \in DOMAIN prev_todo : IsDeleted(k) \/ IsResurrected(k) }
        /\ \A i, j \in 1..Len(prompts) : i # j => prompts[i].key # prompts[j].key

\* Task t has opened its scratch file and has not returned yet.
HasScratch(t) == task[t].pc \in {"line", "keep", "load", "incr", "stamp", "drop"}

\* C19, first part: two tasks of one scan never write to the same scratch file.
C19_NoSharedScratch ==
    \A t1 \in Paths, t2 \in Paths :
        (t1 # t2 /\ HasScratch(t1) /\ HasScratch(t2)) => task[t1].fd # task[t2].fd

\* C19, second part: after a scan that ended with success every scanned file
\* is the rewrite of its own pre-scan content.
C19_EachFileOwnRewrite ==
    (mpc = "idle" /\ exit = "ok" /\ ~dirty) =>
        \A i \in 1..Len(handles) :
            /\ fs[handles[i]] # 0
            /\ IsRewriteOf(preScan[handles[i]], FileAt(handles[i]))

\* C19: the tasks of one scan never share a scratch file, and after a scan
\* that ended with success every scanned file is the rewrite of its own
\* pre-scan content.
C19_ScratchNotShared == C19_NoSharedScratch /\ C19_EachFileOwnRewrite

\* C19, second part, when no scanned file has the extension tmp.
C19_OwnRewriteNoScratchScanned ==
    (\A i \in 1..Len(handles) : handles[i].ext # "tmp") => C19_EachFileOwnRewrite

\* The annotation occurrences of the scanned files as the scan found them.
Occurrences ==
    { o \in UNION { {handles[k]} \X (1..Len(preScan[handles[k]].lines)) :
                       k \in 1..Len(handles) } :
        IsMatch(preScan[o[1]].lines[o[2]]) }

\* The id an occurrence carries in the source (NoId: none).
ExplicitId(o) == Captures(preScan[o[1]].lines[o[2]]).id

ExplicitIds == { ExplicitId(o) : o \in Occurrences } \ {NoId}

ExplicitIdsDistinct ==
    \A o1 \in Occurrences, o2 \in Occurrences :
        (o1 # o2 /\ ExplicitId(o1) # NoId) => ExplicitId(o1) # ExplicitId(o2)

\* C20: after a scan that ended with success over sources whose explicit ids
\* are pairwise distinct, no allocated id is an explicit id of a scanned
\* file and the aggregate map has one entry per annotation occurrence.
C20_EveryOccurrenceOwnEntry ==
    (mpc = "idle" /\ exit = "ok" /\ ~dirty /\ ExplicitIdsDistinct) =>
        /\ AllocatedIds \cap ExplicitIds = {}
        /\ Cardinality(DOMAIN todo_items) = Cardinality(Occurrences)

\* C20 for the scans in which every task has a scratch file of its own.
C20_OwnEntryOwnScratch ==
    (\A i \in 1..Len(handles) : OwnScratch(handles[i])) => C20_EveryOccurrenceOwnEntry

\* Task t has returned from get_todos_from_one_file, with Ok or with Err.
Finished(t) == task[t].pc \in {"ok", "failed"}

\* Task t is at an annotation and waits for the guard of todo_items.
WaitsForItems(t) == AtLine(t) /\ IsMatch(Line(t))

\* C21: under fair scheduling every spawned scan task eventually returns,
\* with success or with an error.
C21_EveryTaskFinishes ==
    \A t \in Paths : Running(t) ~> Finished(t)

\* C21 apart from the scans main leaves at the first failed handle: every
\* spawned task eventually returns, or main has returned a task's error before.
C21_FinishesUnlessCutOff ==
    \A t \in Paths : Running(t) ~> (Finished(t) \/ (mpc = "idle" /\ exit = "err"))

\* C21, the locks: a task that waits for the guard of todo_items eventually
\* stops waiting.
C21_WaitEnds ==
    \A t \in Paths : WaitsForItems(t) ~> ~WaitsForItems(t)

\* C21, the locks: at most one task holds the guard of todo_items, that task
\* is inside the guarded block, and only a holder is at the allocator.
C21_HolderRuns ==
    /\ Cardinality(holders) <= 1
    /\ \A t \in Paths :
           (t \in holders) <=> (task[t].pc \in {"keep", "load", "incr", "stamp"})

\* The bound on the allocator never keeps a task of the first invocation waiting.
C21_BoundNotReached ==
    \A t \in Paths :
        (runs <= 1 /\ WaitsForItems(t) /\ Captures(Line(t)).id = NoId)
            => current_length < MaxId

\* ----------------------------------------------------------- specifications
Next ==
    \/ StartList
    \/ StartDone
    \/ \E c \in {"list", "done"} : LoadFails(c)
    \/ \E t \in Paths : TaskStep(t)
    \/ JoinOne
    \/ JoinErr
    \/ ListDone
    \/ Classify
    \/ \E key \in deleted_keys, input \in Answers : PromptDeleted(key, input)
    \/ \E key \in undone_keys, input \in Answers : PromptUndone(key, input)
    \/ Persist
    \/ \E p \in Paths : EditAdd(p)
    \/ \E p \in Paths : EditRemove(p)

\* Successive invocations, the sources edited in between, no I/O failure.
Spec == Init /\ [][Next]_vars

\* The invocation that begins is the first.
FirstRun == runs' <= 1

NextFaults ==
    \/ StartList /\ FirstRun
    \/ StartDone /\ FirstRun
    \/ \E c \in {"list", "done"} : LoadFails(c) /\ FirstRun
    \/ \E t \in Paths : TaskStep(t)
    \/ \E t \in Paths : WriteFail(t)
    \/ \E t \in Paths : DropFail(t)
    \/ Kill
    \/ JoinOne
    \/ JoinErr
    \/ ListDone
    \/ Classify
    \/ \E key \in deleted_keys, input \in Answers : PromptDeleted(key, input)
    \/ \E key \in undone_keys, input \in Answers : PromptUndone(key, input)
    \/ Persist
    \/ \E p \in Paths : EditAdd(p)
    \/ \E p \in Paths : EditRemove(p)

\* One invocation with failing writes of the scratch file and a killed process.
SpecFaults == Init /\ [][NextFaults]_vars

\* The invocation that begins is the first or the second.
FirstOrSecondRun == runs' <= 2

NextRescan ==
    \/ StartList /\ FirstOrSecondRun
    \/ LoadFails("list") /\ FirstOrSecondRun
    \/ \E t \in Paths : TaskStep(t)
    \/ JoinOne
    \/ JoinErr
    \/ ListDone
    \/ \E p \in Paths : EditAdd(p)
    \/ \E p \in Paths : EditRemove(p)

\* A list invocation and the list invocation that follows it.
SpecRescan == Init /\ [][NextRescan]_vars
NextPersist ==
    \/ StartDone /\ FirstOrSecondRun
    \/ LoadFails("done") /\ FirstOrSecondRun
    \/ \E t \in Paths : TaskStep(t)
    \/ JoinOne
    \/ JoinErr
    \/ Classify
    \/ \E key \in deleted_keys, input \in Answers : PromptDeleted(key, input)
    \/ \E key \in undone_keys, input \in Answers : PromptUndone(key, input)
    \/ Persist
    \/ \E step \in {"write", "flush", "rename"} : PersistFails(step)
    \/ \E key \in deleted_keys \cup undone_keys : PromptReadFails(key)

\* A done invocation and the one that follows it, with a failure of the
\* operator's input or of a step of persisting.
SpecPersist == Init /\ [][NextPersist]_vars

NextMatch ==
    \/ StartList /\ FirstRun
    \/ \E t \in Paths : TaskStep(t)
    \/ JoinOne
    \/ ListDone

\* One list invocation over one line, for each sample line and configuration.
SpecMatch == InitMatch /\ [][NextMatch]_vars

NextFair ==
    \/ StartList /\ FirstRun
    \/ StartDone /\ FirstRun
    \/ \E t \in Paths : TaskStep(t)
    \/ \E t \in Paths : WriteFail(t)
    \/ \E t \in Paths : DropFail(t)
    \/ JoinOne
    \/ JoinErr
    \/ ListDone
    \/ Classify
    \/ \E key \in deleted_keys, input \in Answers : PromptDeleted(key, input)
    \/ \E key \in undone_keys, input \in Answers : PromptUndone(key, input)
    \/ Persist

\* thread::spawn, the main thread: every thread that can take a step
\* eventually takes one; the operator's answers and the failures of write(2)
\* are under no such obligation.
Fairness ==
    /\ \A t \in Paths : WF_vars(TaskStep(t))
    /\ WF_vars(JoinOne)
    /\ WF_vars(JoinErr)
    /\ WF_vars(ListDone)
    /\ WF_vars(Classify)
    /\ WF_vars(Persist)

\* One invocation, its threads scheduled fairly, with failing writes of the
\* scratch file.
SpecFair == Init /\ [][NextFair]_vars /\ Fairness
====
